---- MODULE Spec2Model ----
(***************************************************************************)
(* Model of 56idc-renew.py: the batch orchestrator (main), the per-account *)
(* login state machine (IDC56Login.run / login / handle_2fa /              *)
(* get_totp_code) and the session store (get_session_file, save_session,   *)
(* load_session).  Strings are sequences of one-character strings so that  *)
(* split / strip / replace are computed as Python computes them.           *)
(***************************************************************************)
EXTENDS Integers, Sequences, FiniteSets, TLC

\* ------------------------------------------------------------------ bounds
\* How many times the script is started one after the other.
MaxRuns == 2
\* Largest remaining_seconds the TOTP oracle answers with (0..MaxRemaining).
MaxRemaining == 6
\* Longest ACCOUNTS value parse_accounts is applied to on its own.
MaxLen == 5

\* ------------------------------------------------------- program constants
\* for i in range(30): the interstitial loops of login() and run().
CF_ATTEMPTS == 30
\* for i in range(15): the Turnstile token poll of login().
TURNSTILE_POLLS == 15
\* len(response) > 10: the token length threshold.
TOKEN_MIN_LEN == 10
\* remaining < 5: the freshness margin of get_totp_code.
TOTP_MARGIN == 5
\* The eight selector candidates of handle_2fa.
N_SELECTORS == 8

\* ------------------------------------------------------------ str helpers
SP == " "

RECURSIVE Contains(_, _)
\* c in s
Contains(s, c) ==
  IF s = <<>> THEN FALSE
  ELSE IF Head(s) = c THEN TRUE ELSE Contains(Tail(s), c)

RECURSIVE SplitAcc(_, _, _)
SplitAcc(s, c, cur) ==
  IF s = <<>> THEN <<cur>>
  ELSE IF Head(s) = c THEN <<cur>> \o SplitAcc(Tail(s), c, <<>>)
       ELSE SplitAcc(Tail(s), c, Append(cur, Head(s)))

\* s.split(c): always at least one piece, empty pieces kept.
Split(s, c) == SplitAcc(s, c, <<>>)

RECURSIVE LStrip(_)
LStrip(s) ==
  IF s # <<>> /\ Head(s) = SP THEN LStrip(Tail(s)) ELSE s

RECURSIVE RStrip(_)
RStrip(s) ==
  IF s # <<>> /\ s[Len(s)] = SP THEN RStrip(SubSeq(s, 1, Len(s) - 1)) ELSE s

\* s.strip()
Strip(s) == RStrip(LStrip(s))

RECURSIVE Replace(_, _, _)
\* s.replace(c, r) for a one-character c
Replace(s, c, r) ==
  IF s = <<>> THEN <<>>
  ELSE (IF Head(s) = c THEN r ELSE <<Head(s)>>) \o Replace(Tail(s), c, r)

\* ------------------------------------------------------------ configuration
\* One account record as parse_accounts builds it from the pieces of an item.
AccountOf(parts) ==
  [email |-> Strip(parts[1]),
   password |-> Strip(parts[2]),
   totp_secret |-> IF Len(parts) >= 3 THEN Strip(parts[3]) ELSE <<>>]

RECURSIVE ParseItems(_)
ParseItems(items) ==
  IF items = <<>> THEN <<>>
  ELSE LET item == Strip(Head(items))
           parts == Split(item, ":")
       IN (IF Contains(item, ":") /\ Len(parts) >= 2
           THEN <<AccountOf(parts)>> ELSE <<>>) \o ParseItems(Tail(items))

\* parse_accounts(accounts_str)
parse_accounts(accounts_str) ==
  IF accounts_str = <<>> THEN <<>> ELSE ParseItems(Split(accounts_str, ","))

\* get_session_file(email): the file name inside SESSION_DIR.
get_session_file(email) ==
  Replace(Replace(email, "@", <<"_", "a", "t", "_">>), ".", <<"_">>)
  \o <<".", "j", "s", "o", "n">>

\* Every ACCOUNTS value of at most MaxLen characters over ParseChars.
ParseChars == {"a", ":", ",", SP}
AccountStrings == UNION { [1..n -> ParseChars] : n \in 0..MaxLen }

\* The .env files the model is started with: ACCOUNTS as its characters,
\* STAY_DURATION, whether TELEGRAM_BOT_TOKEN and TELEGRAM_CHAT_ID are both
\* set, and whether TOTP_API_URL is set.
ACC_NONE == <<>>
ACC_BAD == <<"z">>
ACC_ONE == <<"c", "@", "d", ":", "p">>
ACC_TWO == <<"a", ".", "b", ":", "p", ",", " ", "a", "_", "b", ":", "q", ":", "S">>
ACC_MIX ==
  <<"c", "@", "d", ":", "p", ":", "S", ",", "z", ",", "e", ":", "q", ",",
    "f", ":", "r">>
ACC_KEY == <<"c", "@", "d", ":", "p", ":", "S", ",", "e", ":", "q">>

EnvSet ==
  { [ACCOUNTS |-> ACC_NONE, STAY_DURATION |-> 1, telegram |-> TRUE,  totp_url |-> TRUE],
    [ACCOUNTS |-> ACC_BAD,  STAY_DURATION |-> 0, telegram |-> TRUE,  totp_url |-> FALSE],
    [ACCOUNTS |-> ACC_ONE,  STAY_DURATION |-> 0, telegram |-> FALSE, totp_url |-> TRUE],
    [ACCOUNTS |-> ACC_TWO,  STAY_DURATION |-> 1, telegram |-> TRUE,  totp_url |-> TRUE],
    [ACCOUNTS |-> ACC_MIX,  STAY_DURATION |-> 0, telegram |-> TRUE,  totp_url |-> FALSE],
    [ACCOUNTS |-> ACC_KEY,  STAY_DURATION |-> 0, telegram |-> FALSE, totp_url |-> TRUE] }


\* ------------------------------------------------------------------- pages
\* A URL is the set of the fragments the code searches it for; a page text is
\* the set of the markers it contains ("2FA" stands for any of the five
\* second-factor markers of handle_2fa, "Logout" for either logout marker).
URLS ==
  { {"login"}, {"clientarea"}, {"login", "challenge"},
    {"clientarea", "incorrect"}, {} }
TEXTS == { {}, {"Logout"}, {"2FA"} }
Pages == [url : URLS, text : TEXTS]
NoPage == [url |-> {}, text |-> {}]

\* check_logged_in(): text_ok is FALSE when page.evaluate raised (swallowed).
check_logged_in(p, text_ok) ==
  IF "login" \in p.url THEN FALSE
  ELSE IF text_ok /\ "Logout" \in p.text THEN TRUE
  ELSE "clientarea" \in p.url

\* handle_2fa(): is_2fa_page
is_2fa_page(p) == "challenge" \in p.url \/ "2FA" \in p.text

\* login(): the success test on url and text after the form was submitted.
login_succeeded(p) == "clientarea" \in p.url \/ "Logout" \in p.text

\* ---------------------------------------------------------------- oracle
NetFail == [status |-> 0, code |-> "", remaining |-> 0]
Responses ==
  [status : {200, 500}, code : {"", "111111", "222222"},
   remaining : 0..MaxRemaining] \cup {NetFail}

\* Mutant of needs_refetch: the comparison with the margin turned around.
needs_refetch_inverted(wait_for_fresh, remaining) ==
  wait_for_fresh /\ remaining > TOTP_MARGIN

\* get_totp_code(): the condition for waiting and fetching a second time.
needs_refetch(wait_for_fresh, remaining) ==
  wait_for_fresh /\ remaining < TOTP_MARGIN

\* ------------------------------------------------------------ session store
Range(s) == { s[k] : k \in 1..Len(s) }
AllAccounts == UNION { Range(parse_accounts(e.ACCOUNTS)) : e \in EnvSet }
SessionFiles == { get_session_file(a.email) : a \in AllAccounts }

Absent == [kind |-> "absent", jar |-> <<>>]
Corrupt == [kind |-> "corrupt", jar |-> <<>>]
\* A cookie jar is named by the account the site takes its holder for
\* (<<>> for a jar with no session cookie).
Cookies(jar) == [kind |-> "cookies", jar |-> jar]

EmptyStore == [f \in SessionFiles |-> Absent]

\* save_session(): the file write.
write_session(st, file, jar) == [st EXCEPT ![file] = Cookies(jar)]

RECURSIVE SavedStore(_, _)
\* The store as an earlier successful batch over accs left it.
SavedStore(st, accs) ==
  IF accs = <<>> THEN st
  ELSE SavedStore(write_session(st, get_session_file(Head(accs).email),
                                Head(accs).email), Tail(accs))

CorruptStore(accs) ==
  [f \in SessionFiles |->
     IF \E a \in Range(accs) : get_session_file(a.email) = f THEN Corrupt ELSE Absent]

InitialStores(accs) ==
  { EmptyStore, SavedStore(EmptyStore, accs), CorruptStore(accs) }

\* ------------------------------------------------------------------- state
VARIABLES
  env_exists,    \* the .env file exists
  ENV,           \* the values load_env() read
  store,         \* the files of SESSION_DIR
  runNo,         \* which start of the script this is
  prev,          \* summary of the previous start of the script
  pc,            \* position of the single thread of control
  accounts,      \* main: accounts
  idx,           \* main: i of enumerate(accounts, 1)
  results,       \* main: results
  exit_code,     \* process exit status, -1 while running
  uncaught,      \* an exception left main()
  attempted,     \* the accounts whose run() main() has called, in order
  activity,      \* kinds of outside activity of this start of the script
  submits,       \* clicks on the login form's submit in this start
  all_short,     \* every account so far was found logged in from its session
  browser_open,  \* self.browser is launched and not closed
  cookies,       \* the cookie jar of self.context
  has_session,   \* run: has_session
  logged_in,     \* run: check_logged_in() answered True
  loaded,        \* the jar load_session() read
  i,             \* loop counter of the loop the control is in
  page,          \* the page the last submit led to
  fills,         \* credential fields filled in this account's run
  clicks,        \* clicks on the login submit in this account's run
  outcome,       \* how run() ends: "none", "True", "False", "raise"
  saved,         \* save_session() ran in this account's run
  totp,          \* get_totp_code: first remaining, sleep, fetches, code
  store0,        \* the files of SESSION_DIR when this account's run() began
  oracle_down,   \* accounts (by position) whose oracle request failed
  pauses,        \* sleeps main() made between two accounts' runs
  cf,            \* the interstitial loop the control is in: checks, clicks
  ts,            \* login: the Turnstile stage (turnstile_ok, clicks, polls)
  tf             \* handle_2fa: what it detected, did and returned

cfgv == <<env_exists, ENV>>
mainv == <<accounts, idx, results, exit_code, uncaught, attempted>>
runv == <<browser_open, cookies, has_session, logged_in, loaded, i, page, fills,
          clicks, outcome, saved, totp>>
histv == <<store0, oracle_down, pauses, cf, ts, tf>>
vars == <<cfgv, store, runNo, prev, pc, mainv, activity, submits, all_short, runv,
          histv>>

NoTotp ==
  [first |-> -1, slept |-> 0, fetches |-> 0, code |-> "", remaining |-> -1,
   bad |-> FALSE, down |-> FALSE]
NoPrev == [ok |-> FALSE, results |-> <<>>, submits |-> 0]
NoCf == [checks |-> 0, clicks |-> 0, active |-> FALSE, exhausted |-> FALSE]
NoTs == [present |-> "unknown", clicks |-> 0, polls |-> 0, ok |-> FALSE, len |-> 0]
NoTf ==
  [prompt |-> "unknown", result |-> "none", asked |-> FALSE, filled |-> FALSE,
   clicked |-> FALSE, code |-> ""]

\* The account main's loop is at, as IDC56Login.__init__ stores it.
email == accounts[idx].email
totp_secret == accounts[idx].totp_secret
session_file == get_session_file(email)

FreshRun ==
  /\ browser_open = FALSE /\ cookies = <<>> /\ has_session = FALSE
  /\ logged_in = FALSE /\ loaded = <<>> /\ i = 0 /\ page = NoPage /\ fills = 0
  /\ clicks = 0
  /\ outcome = "none" /\ saved = FALSE /\ totp = NoTotp
  /\ cf = NoCf /\ ts = NoTs /\ tf = NoTf

FreshProcess ==
  /\ pc = "load_env" /\ accounts = <<>> /\ idx = 0 /\ results = <<>>
  /\ exit_code = -1 /\ uncaught = FALSE /\ activity = {} /\ submits = 0
  /\ attempted = <<>> /\ oracle_down = {} /\ pauses = 0
  /\ all_short = TRUE /\ FreshRun

Init ==
  /\ env_exists \in BOOLEAN
  /\ ENV \in EnvSet
  /\ store \in InitialStores(parse_accounts(ENV.ACCOUNTS))
  /\ runNo = 1
  /\ prev = NoPrev
  /\ store0 = store
  /\ FreshProcess


\* ------------------------------------------------------------ main(), top
\* Module level: ENV = load_env() exits with 1 when .env is missing.
load_env ==
  /\ pc = "load_env"
  /\ IF env_exists
       THEN pc' = "main" /\ exit_code' = exit_code
       ELSE pc' = "exited" /\ exit_code' = 1
  /\ UNCHANGED <<cfgv, store, runNo, prev, accounts, idx, results, attempted, uncaught,
                 activity, submits, all_short, runv,
                 histv>>

\* Mutant of main_parse: the "if not accounts" check left out.
main_parse_unchecked ==
  /\ pc = "main"
  /\ accounts' = parse_accounts(ENV.ACCOUNTS)
  /\ pc' = "loop" /\ idx' = 1
  /\ UNCHANGED <<cfgv, store, runNo, prev, results, attempted, exit_code,
                 uncaught, activity, submits, all_short, runv,
                 histv>>

\* main(): accounts = parse_accounts(ACCOUNTS_STR); exit(1) when empty.
main_parse ==
  /\ pc = "main"
  /\ accounts' = parse_accounts(ENV.ACCOUNTS)
  /\ IF accounts' = <<>>
       THEN pc' = "exited" /\ exit_code' = 1 /\ idx' = idx
       ELSE pc' = "loop" /\ exit_code' = exit_code /\ idx' = 1
  /\ UNCHANGED <<cfgv, store, runNo, prev, results, attempted, uncaught, activity, submits,
                 all_short, runv,
                 histv>>

\* Mutant of main_loop: the loop is left at the first failed account.
main_loop_stops ==
  /\ pc = "loop"
  /\ IF idx <= Len(accounts) /\ \A k \in 1..Len(results) : results[k].success
       THEN pc' = "launch" /\ attempted' = Append(attempted, email)
       ELSE pc' = "summary" /\ attempted' = attempted
  /\ store0' = store
  /\ UNCHANGED <<cfgv, store, runNo, prev, accounts, idx, results, exit_code,
                 uncaught, activity, submits, all_short, runv,
                 oracle_down, pauses, cf, ts, tf>>

\* main(): the head of "for i, account in enumerate(accounts, 1)" and the
\* construction of IDC56Login for the next account.
main_loop ==
  /\ pc = "loop"
  /\ IF idx <= Len(accounts)
       THEN pc' = "launch" /\ attempted' = Append(attempted, email)
       ELSE pc' = "summary" /\ attempted' = attempted
  /\ store0' = store
  /\ UNCHANGED <<cfgv, store, runNo, prev, accounts, idx, results, exit_code,
                 uncaught, activity, submits, all_short, runv,
                 oracle_down, pauses, cf, ts, tf>>

\* main(): results.append({'email': ..., 'success': success})
main_append ==
  /\ pc = "append"
  /\ results' = Append(results, [email |-> email, success |-> (outcome = "True")])
  /\ all_short' = (all_short /\ has_session /\ logged_in)
  /\ idx' = idx + 1
  /\ pc' = "loop"
  /\ has_session' = FALSE /\ logged_in' = FALSE /\ loaded' = <<>>
  /\ fills' = 0 /\ clicks' = 0 /\ outcome' = "none" /\ saved' = FALSE
  /\ cookies' = <<>>
  /\ UNCHANGED <<cfgv, store, runNo, prev, accounts, exit_code, uncaught,
                 attempted, activity, submits, browser_open, i, page, totp,
                 histv>>

success_count(res) == Cardinality({ k \in 1..Len(res) : res[k].success })

\* Mutant of main_result: one successful account is enough.
main_result_any(res) == success_count(res) > 0

\* main(): the value main() returns.
main_result(res) == success_count(res) = Len(res)

\* __main__: exit(0 if result else 1)
exit_status(result) == IF result THEN 0 ELSE 1

\* main(): the summary, the Telegram report and the process exit.
main_summary ==
  /\ pc = "summary"
  /\ activity' = IF ENV.telegram THEN activity \cup {"notify"} ELSE activity
  /\ exit_code' = exit_status(main_result(results))
  /\ pc' = "exited"
  /\ UNCHANGED <<cfgv, store, runNo, prev, accounts, idx, results, attempted, uncaught,
                 submits, all_short, runv,
                 histv>>

\* ------------------------------------------------------- IDC56Login.run()
\* run(): p.chromium.launch(...)
launch ==
  /\ pc = "launch"
  /\ browser_open' = TRUE
  /\ activity' = activity \cup {"launch"}
  /\ pc' = "new_context"
  /\ UNCHANGED <<cfgv, store, runNo, prev, mainv, submits, all_short, cookies,
                 has_session, logged_in, loaded, i, page, fills, clicks, outcome, saved,
                 totp,
                 histv>>

\* run(): new_context, new_page, new_cdp_session
new_context ==
  /\ pc = "new_context"
  /\ cookies' = <<>>
  /\ pc' = "load_session"
  /\ UNCHANGED <<cfgv, store, runNo, prev, mainv, activity, submits, all_short,
                 browser_open, has_session, logged_in, loaded, i, page, fills, clicks,
                 outcome, saved, totp,
                 histv>>

\* load_session() and the branch of run() on has_session.  json.load of a
\* corrupt file and add_cookies raising are both swallowed (bare except).
load_session ==
  /\ pc = "load_session"
  /\ activity' = activity \cup {"load"}
  /\ \E add_ok \in BOOLEAN :
       LET ok == store[session_file].kind = "cookies" /\ add_ok
       IN /\ has_session' = ok
          /\ loaded' = IF ok THEN store[session_file].jar ELSE <<>>
          /\ cookies' = IF ok THEN store[session_file].jar ELSE cookies
          /\ pc' = IF ok THEN "goto_dash" ELSE "login_goto"
  /\ UNCHANGED <<cfgv, store, runNo, prev, mainv, submits, all_short,
                 browser_open, logged_in, i, page, fills, clicks, outcome, saved, totp,
                 histv>>

\* run(): page.goto(DASHBOARD_URL)
goto_dash ==
  /\ pc = "goto_dash"
  /\ activity' = activity \cup {"goto"}
  /\ i' = 0
  /\ pc' = "dash_title"
  /\ UNCHANGED <<cfgv, store, runNo, prev, mainv, submits, all_short,
                 browser_open, cookies, has_session, logged_in, loaded, page,
                 fills, clicks, outcome, saved, totp,
                 histv>>

\* Mutant of cf_title: one round more than range(30) gives.
cf_title_extra(here, click, out) ==
  /\ pc = here
  /\ IF i > CF_ATTEMPTS
       THEN pc' = out /\ i' = 0 /\ cf' = [cf EXCEPT !.exhausted = TRUE]
       ELSE \E just_a_moment \in BOOLEAN :
              /\ cf' = [cf EXCEPT !.checks = @ + 1, !.active = just_a_moment]
              /\ IF just_a_moment THEN pc' = click /\ i' = i
                                  ELSE pc' = out /\ i' = 0
  /\ UNCHANGED <<cfgv, store, runNo, prev, mainv, activity, submits, all_short,
                 browser_open, cookies, has_session, logged_in, loaded, page,
                 fills, clicks, outcome, saved, totp,
                 store0, oracle_down, pauses, ts, tf>>

\* One title check of an interstitial loop: leave after CF_ATTEMPTS rounds
\* or when the title no longer says 'Just a moment', click otherwise.
cf_title(here, click, out) ==
  /\ pc = here
  /\ IF i >= CF_ATTEMPTS
       THEN pc' = out /\ i' = 0 /\ cf' = [cf EXCEPT !.exhausted = TRUE]
       ELSE \E just_a_moment \in BOOLEAN :
              /\ cf' = [cf EXCEPT !.checks = @ + 1, !.active = just_a_moment]
              /\ IF just_a_moment THEN pc' = click /\ i' = i
                                  ELSE pc' = out /\ i' = 0
  /\ UNCHANGED <<cfgv, store, runNo, prev, mainv, activity, submits, all_short,
                 browser_open, cookies, has_session, logged_in, loaded, page,
                 fills, clicks, outcome, saved, totp,
                 store0, oracle_down, pauses, ts, tf>>

\* The three dispatchMouseEvent calls of one round and the loop's increment.
cf_click(here, back) ==
  /\ pc = here
  /\ i' = i + 1
  /\ cf' = [cf EXCEPT !.clicks = @ + 1]
  /\ pc' = back
  /\ UNCHANGED <<cfgv, store, runNo, prev, mainv, activity, submits, all_short,
                 browser_open, cookies, has_session, logged_in, loaded, page,
                 fills, clicks, outcome, saved, totp,
                 store0, oracle_down, pauses, ts, tf>>

\* run(): the interstitial loop after the dashboard navigation
dash_title == cf_title("dash_title", "dash_click", "check")
dash_click == cf_click("dash_click", "dash_title")

\* Mutant of check_session: login() is called whatever the check answered.
check_session_relogin ==
  /\ pc = "check"
  /\ \E p \in Pages, text_ok \in BOOLEAN :
       logged_in' = check_logged_in(p, text_ok)
  /\ pc' = "login_goto"
  /\ cf' = NoCf
  /\ UNCHANGED <<cfgv, store, runNo, prev, mainv, activity, submits, all_short,
                 browser_open, cookies, has_session, loaded, i, page, fills,
                 clicks, outcome, saved, totp,
                 store0, oracle_down, pauses, ts, tf>>

\* run(): if await self.check_logged_in()
check_session ==
  /\ pc = "check"
  /\ \E p \in Pages, text_ok \in BOOLEAN :
       /\ logged_in' = check_logged_in(p, text_ok)
       /\ pc' = IF logged_in' THEN "stay" ELSE "login_goto"
  /\ i' = IF logged_in' THEN ENV.STAY_DURATION ELSE i
  /\ cf' = NoCf
  /\ UNCHANGED <<cfgv, store, runNo, prev, mainv, activity, submits, all_short,
                 browser_open, cookies, has_session, loaded, page, fills, clicks,
                 outcome, saved, totp,
                 store0, oracle_down, pauses, ts, tf>>


\* ----------------------------------------------------- IDC56Login.login()
\* login(): page.goto(LOGIN_URL)
login_goto ==
  /\ pc = "login_goto"
  /\ activity' = activity \cup {"goto"}
  /\ i' = 0
  /\ pc' = "login_title"
  /\ UNCHANGED <<cfgv, store, runNo, prev, mainv, submits, all_short,
                 browser_open, cookies, has_session, logged_in, loaded, page,
                 fills, clicks, outcome, saved, totp,
                 histv>>

\* login(): the interstitial loop on the login page
login_title == cf_title("login_title", "login_click", "ts_locate")
login_click == cf_click("login_click", "login_title")

\* login(): locate .cf-turnstile; absent means no click and no poll.
ts_locate ==
  /\ pc = "ts_locate"
  /\ \E present \in BOOLEAN :
       /\ pc' = IF present THEN "ts_click" ELSE "fill"
       /\ ts' = [NoTs EXCEPT !.present = IF present THEN "yes" ELSE "no"]
  /\ cf' = NoCf
  /\ UNCHANGED <<cfgv, store, runNo, prev, mainv, activity, submits, all_short,
                 runv, store0, oracle_down, pauses, tf>>

\* login(): the one simulated click on the widget
ts_click ==
  /\ pc = "ts_click"
  /\ i' = 0
  /\ ts' = [ts EXCEPT !.clicks = @ + 1]
  /\ pc' = "ts_poll"
  /\ UNCHANGED <<cfgv, store, runNo, prev, mainv, activity, submits, all_short,
                 browser_open, cookies, has_session, logged_in, loaded, page,
                 fills, clicks, outcome, saved, totp,
                 store0, oracle_down, pauses, cf, tf>>

\* Mutant of token_ok: a token of exactly the threshold length is enough.
token_ok_loose(len) == len >= TOKEN_MIN_LEN

\* login(): if len(response) > 10
token_ok(len) == len > TOKEN_MIN_LEN

\* login(): one poll of cf-turnstile-response; the form is filled next
\* whether the token came or the polls ran out.
ts_poll ==
  /\ pc = "ts_poll"
  /\ IF i >= TURNSTILE_POLLS
       THEN pc' = "fill" /\ i' = 0 /\ ts' = ts
       ELSE \E len \in {0, TOKEN_MIN_LEN, TOKEN_MIN_LEN + 1} :
              /\ ts' = [ts EXCEPT !.polls = @ + 1, !.len = len,
                                  !.ok = token_ok(len)]
              /\ IF token_ok(len)
                   THEN pc' = "fill" /\ i' = 0
                   ELSE pc' = "ts_poll" /\ i' = i + 1
  /\ UNCHANGED <<cfgv, store, runNo, prev, mainv, activity, submits, all_short,
                 browser_open, cookies, has_session, logged_in, loaded, page,
                 fills, clicks, outcome, saved, totp,
                 store0, oracle_down, pauses, cf, tf>>

\* login(): fill #inputEmail and #inputPassword
fill_form ==
  /\ pc = "fill"
  /\ fills' = fills + 2
  /\ pc' = "submit"
  /\ UNCHANGED <<cfgv, store, runNo, prev, mainv, activity, submits, all_short,
                 browser_open, cookies, has_session, logged_in, loaded, i, page,
                 clicks, outcome, saved, totp,
                 histv>>

\* Mutant of click_submit: the cookies are written to the session file as
\* soon as the form is submitted, before the login is verified.
click_submit_saves ==
  /\ pc = "submit"
  /\ submits' = submits + 1
  /\ clicks' = clicks + 1
  /\ \E p \in Pages :
       /\ page' = p
       /\ cookies' = IF login_succeeded(p) THEN email ELSE cookies
  /\ store' = write_session(store, session_file, cookies')
  /\ saved' = TRUE
  /\ pc' = "2fa_detect"
  /\ UNCHANGED <<cfgv, runNo, prev, mainv, activity, all_short,
                 browser_open, has_session, logged_in, loaded, i, fills,
                 outcome, totp, histv>>

\* login(): click button[type="submit"]; the site answers with some page and,
\* when that page is an authenticated one, with this account's session cookie.
click_submit ==
  /\ pc = "submit"
  /\ submits' = submits + 1
  /\ clicks' = clicks + 1
  /\ \E p \in Pages :
       /\ page' = p
       /\ cookies' = IF login_succeeded(p) THEN email ELSE cookies
  /\ pc' = "2fa_detect"
  /\ UNCHANGED <<cfgv, store, runNo, prev, mainv, activity, all_short,
                 browser_open, has_session, logged_in, loaded, i, fills,
                 outcome, saved, totp,
                 histv>>

\* How handle_2fa() / login() end with False: run() returns False.
Fail == pc' = "finally" /\ outcome' = "False"

\* Mutant of twofa_detect: "if not self.totp_secret: return False" left
\* out, so that get_totp_code is called for an account without a secret.
twofa_detect_nocheck ==
  /\ pc = "2fa_detect"
  /\ IF ~is_2fa_page(page)
       THEN /\ pc' = "verify" /\ page' = page
            /\ tf' = [NoTf EXCEPT !.prompt = "no", !.result = "True"]
       ELSE /\ page' = NoPage
            /\ pc' = "totp_fetch"
            /\ tf' = [NoTf EXCEPT !.prompt = "yes"]
  /\ ts' = NoTs
  /\ UNCHANGED <<cfgv, store, runNo, prev, mainv, activity, submits, all_short,
                 browser_open, cookies, has_session, logged_in, loaded, i,
                 fills, clicks, outcome, saved, totp,
                 store0, oracle_down, pauses, cf>>

\* handle_2fa(): detection and the check of the enrolled secret
twofa_detect ==
  /\ pc = "2fa_detect"
  /\ IF ~is_2fa_page(page)
       THEN /\ pc' = "verify" /\ outcome' = outcome /\ page' = page
            /\ tf' = [NoTf EXCEPT !.prompt = "no", !.result = "True"]
       ELSE /\ page' = NoPage
            /\ IF totp_secret = <<>>
                 THEN Fail /\ tf' = [NoTf EXCEPT !.prompt = "yes", !.result = "False"]
                 ELSE /\ pc' = "totp_fetch" /\ outcome' = outcome
                      /\ tf' = [NoTf EXCEPT !.prompt = "yes"]
  /\ ts' = NoTs
  /\ UNCHANGED <<cfgv, store, runNo, prev, mainv, activity, submits, all_short,
                 browser_open, cookies, has_session, logged_in, loaded, i,
                 fills, clicks, saved, totp,
                 store0, oracle_down, pauses, cf>>

\* Mutant of got_code: the "if not code" check left out.
got_code_unchecked(code) == pc' = "2fa_fill" /\ outcome' = outcome

\* What handle_2fa() does with the code get_totp_code() returned.
got_code(code) == IF code = "" THEN Fail ELSE pc' = "2fa_fill" /\ outcome' = outcome

\* handle_2fa() returned False when the control went to run()'s finally.
returned(t, to) == [t EXCEPT !.result = IF to = "finally" THEN "False" ELSE @]

\* get_totp_code(wait_for_fresh=True): the guard and the first request
totp_fetch ==
  /\ pc = "totp_fetch"
  /\ IF ~ENV.totp_url \/ totp_secret = <<>>
       THEN totp' = totp /\ activity' = activity /\ got_code("")
       ELSE /\ activity' = activity \cup {"oracle"}
            /\ \E r \in Responses :
                 IF r.status # 200
                   THEN /\ totp' = [totp EXCEPT !.fetches = 1, !.bad = TRUE,
                                                !.down = (r = NetFail)]
                        /\ got_code("")
                   ELSE IF needs_refetch(TRUE, r.remaining)
                     THEN /\ totp' = [totp EXCEPT !.fetches = 1,
                                                  !.first = r.remaining,
                                                  !.code = r.code,
                                                  !.remaining = r.remaining]
                          /\ pc' = "totp_refetch" /\ outcome' = outcome
                     ELSE /\ totp' = [totp EXCEPT !.fetches = 1,
                                                  !.first = r.remaining,
                                                  !.code = r.code,
                                                  !.remaining = r.remaining]
                          /\ got_code(r.code)
  /\ tf' = returned([tf EXCEPT !.asked = (totp'.fetches > 0)], pc')
  /\ oracle_down' = IF totp'.down THEN oracle_down \cup {idx} ELSE oracle_down
  /\ UNCHANGED <<cfgv, store, runNo, prev, mainv, submits, all_short,
                 browser_open, cookies, has_session, logged_in, loaded, i, page,
                 fills, clicks, saved,
                 store0, pauses, cf, ts>>

\* get_totp_code(): time.sleep(remaining + 1) and the second request, whose
\* status is not looked at and whose remaining_seconds is only logged.
totp_refetch ==
  /\ pc = "totp_refetch"
  /\ \E r \in Responses :
       IF r = NetFail
         THEN /\ totp' = [totp EXCEPT !.fetches = 2, !.slept = totp.first + 1,
                                      !.code = "", !.remaining = -1,
                                      !.bad = TRUE, !.down = TRUE]
              /\ got_code("")
         ELSE /\ totp' = [totp EXCEPT !.fetches = 2, !.slept = totp.first + 1,
                                      !.code = r.code, !.remaining = r.remaining,
                                      !.bad = (r.status # 200)]
              /\ got_code(r.code)
  /\ tf' = returned(tf, pc')
  /\ oracle_down' = IF totp'.down THEN oracle_down \cup {idx} ELSE oracle_down
  /\ UNCHANGED <<cfgv, store, runNo, prev, mainv, activity, submits, all_short,
                 browser_open, cookies, has_session, logged_in, loaded, i, page,
                 fills, clicks, saved,
                 store0, pauses, cf, ts>>

\* handle_2fa(): filled, after the loop over the selectors.
filled_ok(k) == k # 0

\* handle_2fa(): the loop over the selectors.  k is the first selector that
\* matches an element and whose fill goes through (0: none matches, or every
\* fill raised and was skipped).
twofa_fill ==
  /\ pc = "2fa_fill"
  /\ \E k \in 0..N_SELECTORS :
       /\ IF filled_ok(k) THEN pc' = "2fa_submit" /\ outcome' = outcome ELSE Fail
       /\ tf' = returned([tf EXCEPT !.filled = (k # 0),
                                    !.code = IF k # 0 THEN totp.code ELSE @],
                         pc')
  /\ totp' = [NoTotp EXCEPT !.code = totp.code]
  /\ UNCHANGED <<cfgv, store, runNo, prev, mainv, activity, submits, all_short,
                 browser_open, cookies, has_session, logged_in, loaded, i, page,
                 fills, clicks, saved,
                 store0, oracle_down, pauses, cf, ts>>

\* handle_2fa(): look for a submit control and click it; when none of the
\* three selectors matches, or the lookup or the click raises (only logged),
\* nothing is clicked.  After the wait the page is whatever the site shows.
twofa_submit ==
  /\ pc = "2fa_submit"
  /\ \E p \in Pages :
       /\ page' = p
       /\ cookies' = IF login_succeeded(p) THEN email ELSE cookies
  /\ \E clicked \in BOOLEAN : tf' = [tf EXCEPT !.clicked = clicked]
  /\ pc' = "2fa_verify"
  /\ UNCHANGED <<cfgv, store, runNo, prev, mainv, activity, submits, all_short,
                 browser_open, has_session, logged_in, loaded, i, fills, clicks,
                 outcome, saved, totp,
                 store0, oracle_down, pauses, cf, ts>>

\* handle_2fa(): 'incorrect' in new_url
twofa_verify ==
  /\ pc = "2fa_verify"
  /\ IF "incorrect" \in page.url
       THEN Fail /\ tf' = [tf EXCEPT !.result = "False"]
       ELSE pc' = "verify" /\ outcome' = outcome /\ tf' = [tf EXCEPT !.result = "True"]
  /\ totp' = NoTotp
  /\ UNCHANGED <<cfgv, store, runNo, prev, mainv, activity, submits, all_short,
                 browser_open, cookies, has_session, logged_in, loaded, i, page,
                 fills, clicks, saved,
                 store0, oracle_down, pauses, cf, ts>>

\* login(): the check of url and text, and run()'s "if not await self.login()"
verify ==
  /\ pc = "verify"
  /\ IF login_succeeded(page)
       THEN pc' = "stay" /\ outcome' = outcome /\ i' = ENV.STAY_DURATION
       ELSE Fail /\ i' = i
  /\ page' = NoPage
  /\ tf' = NoTf
  /\ UNCHANGED <<cfgv, store, runNo, prev, mainv, activity, submits, all_short,
                 browser_open, cookies, has_session, logged_in, loaded, fills, clicks,
                 saved, totp,
                 store0, oracle_down, pauses, cf, ts>>

\* ------------------------------------------------- run(): stay, save, end
\* Mutant of stay: a "while i > 0" loop whose counter is never decreased.
stay_forever ==
  /\ pc = "stay"
  /\ IF i > 0 THEN i' = i /\ pc' = "stay" ELSE i' = i /\ pc' = "save"
  /\ UNCHANGED <<cfgv, store, runNo, prev, mainv, activity, submits, all_short,
                 browser_open, cookies, has_session, logged_in, loaded, page,
                 fills, clicks, outcome, saved, totp, histv>>

\* run(): for i in range(STAY_DURATION, 0, -1): sleep(1)
stay ==
  /\ pc = "stay"
  /\ IF i > 0 THEN i' = i - 1 /\ pc' = "stay" ELSE i' = i /\ pc' = "save"
  /\ UNCHANGED <<cfgv, store, runNo, prev, mainv, activity, submits, all_short,
                 browser_open, cookies, has_session, logged_in, loaded, page,
                 fills, clicks, outcome, saved, totp,
                 histv>>

\* Mutant of save_session: the jar read at start-up is written back
\* instead of the context's current cookies.
save_session_stale ==
  /\ pc = "save"
  /\ store' = write_session(store, session_file, loaded)
  /\ saved' = TRUE
  /\ outcome' = "True"
  /\ pc' = "finally"
  /\ UNCHANGED <<cfgv, runNo, prev, mainv, activity, submits, all_short,
                 browser_open, cookies, has_session, logged_in, loaded, i, page,
                 fills, clicks, totp,
                 histv>>

\* save_session() followed by "return True"
save_session ==
  /\ pc = "save"
  /\ store' = write_session(store, session_file, cookies)
  /\ saved' = TRUE
  /\ outcome' = "True"
  /\ pc' = "finally"
  /\ UNCHANGED <<cfgv, runNo, prev, mainv, activity, submits, all_short,
                 browser_open, cookies, has_session, logged_in, loaded, i, page,
                 fills, clicks, totp,
                 histv>>

\* The browser calls that are not inside a try/except of their own.
RaisingSteps ==
  { "launch", "new_context", "goto_dash", "dash_title", "dash_click",
    "login_goto", "login_title", "login_click", "ts_locate", "ts_click",
    "ts_poll", "fill", "submit", "2fa_detect", "verify", "save" }

\* A browser call raises.  Inside run()'s try the finally clause runs next;
\* launch() is before the try, so its exception leaves run() at once.
raise ==
  /\ pc \in RaisingSteps
  /\ IF pc = "launch"
       THEN /\ pc' = "exited" /\ exit_code' = 1 /\ uncaught' = TRUE
            /\ outcome' = outcome
       ELSE /\ pc' = "finally" /\ outcome' = "raise"
            /\ exit_code' = exit_code /\ uncaught' = uncaught
  /\ cf' = NoCf /\ ts' = NoTs /\ tf' = NoTf
  /\ UNCHANGED <<cfgv, store, runNo, prev, accounts, idx, results, attempted, activity,
                 submits, all_short, browser_open, cookies, has_session,
                 logged_in, loaded, i, page, fills, clicks, saved, totp,
                 store0, oracle_down, pauses>>

\* Mutant of finally: the browser is closed only when run() returns a
\* value (close() after the try block instead of in a finally clause).
finally_leak ==
  /\ pc = "finally"
  /\ browser_open' = (outcome = "raise")
  /\ IF outcome = "raise"
       THEN pc' = "exited" /\ exit_code' = 1 /\ uncaught' = TRUE
       ELSE pc' = "append" /\ exit_code' = exit_code /\ uncaught' = uncaught
  /\ i' = 0 /\ page' = NoPage /\ totp' = NoTotp
  /\ cf' = NoCf /\ ts' = NoTs /\ tf' = NoTf
  /\ UNCHANGED <<cfgv, store, runNo, prev, accounts, idx, results, attempted,
                 activity, submits, all_short, cookies, has_session, logged_in,
                 loaded, fills, clicks, outcome, saved,
                 store0, oracle_down, pauses>>

\* run(): finally: await self.browser.close().  A returned value goes to
\* main(); an exception goes on through main(), which has no handler, and
\* asyncio.run: the interpreter prints the traceback and exits with 1.
finally ==
  /\ pc = "finally"
  /\ browser_open' = FALSE
  /\ IF outcome = "raise"
       THEN pc' = "exited" /\ exit_code' = 1 /\ uncaught' = TRUE
       ELSE pc' = "append" /\ exit_code' = exit_code /\ uncaught' = uncaught
  /\ i' = 0 /\ page' = NoPage /\ totp' = NoTotp
  /\ cf' = NoCf /\ ts' = NoTs /\ tf' = NoTf
  /\ UNCHANGED <<cfgv, store, runNo, prev, accounts, idx, results, attempted, activity,
                 submits, all_short, cookies, has_session, logged_in, loaded,
                 fills, clicks, outcome, saved,
                 store0, oracle_down, pauses>>

\* main() came to its summary: every account's run() returned.
Finished ==
  pc = "exited" /\ ~uncaught /\ accounts # <<>> /\ Len(results) = Len(accounts)

\* The script is started again (the next scheduled run): a new process with
\* the same .env and the session files the last one left.
restart ==
  /\ pc = "exited"
  /\ runNo < MaxRuns
  /\ runNo' = runNo + 1
  /\ prev' = IF Finished /\ all_short
               THEN [ok |-> TRUE, results |-> results, submits |-> submits]
               ELSE NoPrev
  /\ pc' = "load_env" /\ accounts' = <<>> /\ idx' = 0 /\ results' = <<>>
  /\ attempted' = <<>> /\ clicks' = 0
  /\ exit_code' = -1 /\ uncaught' = FALSE /\ activity' = {} /\ submits' = 0
  /\ all_short' = TRUE
  /\ browser_open' = FALSE /\ cookies' = <<>> /\ has_session' = FALSE
  /\ logged_in' = FALSE /\ loaded' = <<>> /\ i' = 0 /\ page' = NoPage
  /\ fills' = 0 /\ outcome' = "none" /\ saved' = FALSE /\ totp' = NoTotp
  /\ store0' = store /\ oracle_down' = {} /\ pauses' = 0
  /\ cf' = NoCf /\ ts' = NoTs /\ tf' = NoTf
  /\ UNCHANGED <<cfgv, store>>

Next ==
  \/ load_env \/ main_parse \/ main_loop \/ main_append \/ main_summary
  \/ launch \/ new_context \/ load_session \/ goto_dash
  \/ dash_title \/ dash_click \/ check_session
  \/ login_goto \/ login_title \/ login_click
  \/ ts_locate \/ ts_click \/ ts_poll \/ fill_form \/ click_submit
  \/ twofa_detect \/ totp_fetch \/ totp_refetch
  \/ twofa_fill \/ twofa_submit \/ twofa_verify \/ verify
  \/ stay \/ save_session \/ raise \/ finally \/ restart

Spec == Init /\ [][Next]_vars

\* ------------------------------------------- every call and sleep returns
\* One start of the script in which no browser call raises.  main() is one
\* coroutine run by asyncio.run: whenever it can take its next step it does.
NextTerm ==
  \/ load_env \/ main_parse \/ main_loop \/ main_append \/ main_summary
  \/ launch \/ new_context \/ load_session \/ goto_dash
  \/ dash_title \/ dash_click \/ check_session
  \/ login_goto \/ login_title \/ login_click
  \/ ts_locate \/ ts_click \/ ts_poll \/ fill_form \/ click_submit
  \/ twofa_detect \/ totp_fetch \/ totp_refetch
  \/ twofa_fill \/ twofa_submit \/ twofa_verify \/ verify
  \/ stay \/ save_session \/ finally

SpecTerm == Init /\ [][NextTerm]_vars /\ WF_vars(NextTerm)

\* ------------------------------------------------- parse_accounts alone
\* The script is started with any short ACCOUNTS value and runs up to the
\* point where main() has parsed it.
ParseEnvs ==
  { [ACCOUNTS |-> str, STAY_DURATION |-> 0, telegram |-> FALSE, totp_url |-> FALSE] :
      str \in AccountStrings }

InitParse ==
  /\ env_exists \in BOOLEAN
  /\ ENV \in ParseEnvs
  /\ store = EmptyStore /\ store0 = store
  /\ runNo = 1 /\ prev = NoPrev
  /\ FreshProcess

NextParse == load_env \/ main_parse

SpecParse == InitParse /\ [][NextParse]_vars


\* ================================================================= claims
Emails(seq) == [k \in 1..Len(seq) |-> seq[k].email]
AllSucceeded == \A k \in 1..Len(results) : results[k].success
RunSteps ==
  { "new_context", "load_session", "goto_dash", "dash_title", "dash_click",
    "check", "login_goto", "login_title", "login_click", "ts_locate",
    "ts_click", "ts_poll", "fill", "submit", "2fa_detect", "totp_fetch",
    "totp_refetch", "2fa_fill", "2fa_submit", "2fa_verify", "verify", "stay",
    "save", "finally" }

\* C1: the batch result holds one entry per account in input order; once a
\* failed outcome of account k is recorded and main's loop has gone on, the
\* run of account k+1 has been called; at the summary every account has been
\* attempted and has its entry.
C1_Isolation ==
  /\ Len(results) <= Len(accounts)
  /\ Emails(results) = SubSeq(Emails(accounts), 1, Len(results))
  /\ attempted = SubSeq(Emails(accounts), 1, Len(attempted))
  /\ \A k \in 1..Len(results) :
       (~results[k].success /\ k < Len(accounts) /\ pc # "loop")
         => Len(attempted) > k
  /\ (pc = "summary" \/ Finished)
       => /\ Emails(results) = Emails(accounts)
          /\ attempted = Emails(accounts)

\* C1 witness: a batch of three came to its summary with the first account
\* failed, the second one successful and the third one failed.
C1_Witness ==
  /\ pc = "summary" /\ Len(accounts) = 3
  /\ ~results[1].success /\ results[2].success /\ ~results[3].success

\* C2 (as claimed): an exception raised inside an account's run, after the
\* browser was launched, is caught at the account boundary: it never leaves
\* main() and never ends the process in the middle of the batch.
C2_ExceptionCaught == outcome = "raise" => ~(pc = "exited" /\ uncaught)

\* C3 (as claimed): the exit status is 0 exactly when every configured
\* account has a successful outcome, read literally (also for no account).
C3_ExitZeroIffAll ==
  (pc = "exited" /\ env_exists)
    => (exit_code = 0 <=> (Len(results) = Len(accounts) /\ AllSucceeded))

\* C3 (amended): the exit status is 0 exactly when at least one account is
\* configured and every configured account has a successful outcome; it is
\* 1 in every other run that ended.
C3_ExitStatus ==
  /\ pc = "exited"
       => /\ exit_code \in {0, 1}
          /\ exit_code = 0 <=> /\ accounts # <<>>
                               /\ Len(results) = Len(accounts)
                               /\ AllSucceeded
  /\ pc # "exited" => exit_code = -1

\* C3 witness: both directions happened, here a batch of two that exited 0.
C3_Witness ==
  pc = "exited" /\ exit_code = 0 /\ Len(accounts) = 2 /\ runNo = 1

\* C4: once the stored cookies were loaded and the dashboard was recognised
\* as logged in, the run fills no credential field and clicks no login
\* submit, it never returns False, and the outcome main() records is
\* success (so are the recorded outcomes of the accounts before it that went
\* the same way).
C4_ShortCircuit ==
  (has_session /\ logged_in)
    => /\ fills = 0 /\ clicks = 0
       /\ outcome # "False"
       /\ pc \in {"stay", "save", "finally", "append", "exited"}
       /\ pc = "append" => outcome = "True"
       /\ all_short => AllSucceeded

\* C4 witness: a run that took the short cut has returned True to main().
C4_Witness ==
  has_session /\ logged_in /\ pc = "append" /\ outcome = "True" /\ fills = 0

\* C5: a run without a loaded session that returns True has called
\* save_session while the browser was still open, and the session file
\* holds the context's cookies as they are at the return.
C5_SavedBeforeExit ==
  (outcome = "True" /\ ~has_session)
    => /\ saved
       /\ store[session_file] = Cookies(cookies)
       /\ cookies = email
       /\ pc = "finally" => browser_open
       /\ pc \in {"finally", "append"}

\* C5 witness: such a run returned True after a login.
C5_Witness ==
  pc = "finally" /\ outcome = "True" /\ ~has_session /\ clicks = 1 /\ saved

\* C6 (as claimed): every answer below the margin is waited out and fetched
\* again, so the code the handler accepts comes from an answer whose
\* remaining_seconds is at least the margin.
C6_EveryAnswerFresh ==
  pc = "2fa_fill" => totp.remaining >= TOTP_MARGIN

\* C6 (amended): when the first answer is below the margin the handler
\* sleeps longer than its remaining_seconds and fetches once more, and the
\* code it accepts is the one of the second answer; otherwise the first
\* answer's code is accepted.  The second answer is accepted as it comes.
C6_FirstAnswerFresh ==
  /\ pc = "2fa_fill"
       => /\ totp.code # ""
          /\ totp.first < TOTP_MARGIN
               => totp.fetches = 2 /\ totp.slept >= totp.first
          /\ totp.first >= TOTP_MARGIN
               => totp.fetches = 1 /\ totp.slept = 0
                  /\ totp.remaining = totp.first
  /\ pc = "totp_refetch" => totp.first < TOTP_MARGIN /\ totp.fetches = 1

\* C6 witness: a code was accepted after a first answer below the margin.
C6_Witness ==
  pc = "2fa_fill" /\ totp.first >= 0 /\ totp.first < TOTP_MARGIN

\* C7: the browser is open only inside the account's run; after the run has
\* ended, by a return or by an exception, it is closed.
C7_BrowserReleased ==
  /\ browser_open => pc \in RunSteps
  /\ pc \in {"append", "loop", "summary", "exited"} => ~browser_open

\* C7 witness: a run ended by an exception raised after the launch.
C7_Witness ==
  pc = "exited" /\ uncaught /\ outcome = "raise" /\ ~browser_open

\* C8 (as claimed): two different account identifiers never get the same
\* session file, and a loaded session is the account's own.
C8_NoSharedSession ==
  /\ \A k1, k2 \in 1..Len(accounts) :
       accounts[k1].email # accounts[k2].email
         => get_session_file(accounts[k1].email)
              # get_session_file(accounts[k2].email)
  /\ (has_session /\ loaded # <<>>) => loaded = email

\* C9: when no account can be parsed from ACCOUNTS the process exits with
\* status 1 right after parsing: no browser launch, navigation, session
\* load, oracle request or notification happens, no run() is called.
C9_EmptyConfig ==
  (env_exists /\ parse_accounts(ENV.ACCOUNTS) = <<>>)
    => /\ pc \in {"load_env", "main", "exited"}
       /\ pc = "exited" => exit_code = 1
       /\ activity = {} /\ ~browser_open /\ attempted = <<>>

\* C9 witness: the process has exited on a list with no parsable entry.
C9_Witness ==
  env_exists /\ ENV.ACCOUNTS = ACC_BAD /\ pc = "exited" /\ exit_code = 1

\* C10: when two starts in a row each find every account logged in from its
\* stored session, both batch results are the same, all successful, and
\* neither start submits the login form.
C10_Idempotent ==
  (runNo >= 2 /\ prev.ok /\ Finished /\ all_short)
    => /\ results = prev.results
       /\ AllSucceeded
       /\ submits = 0 /\ prev.submits = 0
       /\ exit_code = 0

\* C10 witness: the second of two such starts has finished a batch of two.
C10_Witness ==
  runNo = 2 /\ prev.ok /\ Finished /\ all_short /\ Len(accounts) = 2


\* --------------------------------------------------------------------- C11
\* C11: an account whose oracle request failed at the network level after a
\* second-factor prompt ends in failure with nothing saved (the session files
\* are as they were when its run began), its result is recorded as a failure,
\* and the next account's run starts from the same fresh state, with every
\* earlier result recorded, as after any other account.
C11_OracleFailureIsolated ==
  /\ \A k \in oracle_down :
       /\ k = idx => /\ pc \in {"finally", "append"}
                     /\ outcome = "False" /\ ~saved /\ store = store0
       /\ k < idx => k <= Len(results) /\ ~results[k].success
  /\ pc = "launch" => FreshRun /\ store0 = store /\ Len(results) = idx - 1

\* The first account's oracle was unreachable and the second one succeeded.
C11_Witness ==
  /\ Finished /\ Len(results) = 2
  /\ oracle_down = {1} /\ ~results[1].success /\ results[2].success

\* --------------------------------------------------------------------- C12
\* C12: get_totp_code returns '' whenever a request it made was answered with
\* a status other than 200 or failed: a code is never taken to the input
\* field after such an answer.
C12_EmptyOnBadAnswer == pc = "2fa_fill" => ~totp.bad

\* --------------------------------------------------------------------- C13
\* C13: parse_accounts skips every entry that lacks a required field: each
\* account it returns has a non-empty identifier and a non-empty password.
C13_MalformedSkipped ==
  \A k \in 1..Len(accounts) :
    accounts[k].email # <<>> /\ accounts[k].password # <<>>

\* --------------------------------------------------------------------- C14
\* C14: while an account's run is under way or has just ended, a run that
\* ended in failure has not called save_session and the session files are
\* exactly those the run found; the files differ from those the run found
\* only when save_session was called and the outcome is success.
C14_NoSaveOnFailure ==
  /\ outcome = "False" => ~saved /\ store = store0
  /\ (pc \in RunSteps \cup {"launch", "append"} /\ store # store0) =>
       saved /\ outcome = "True"

\* A stored session was found expired, the form was submitted, the login
\* failed, and the stored record is still there.
C14_Witness ==
  /\ pc = "append" /\ outcome = "False" /\ fills = 2
  /\ store[session_file].kind = "cookies" /\ has_session

\* --------------------------------------------------------------------- C15
\* C15: an interstitial loop checks the title at most CF_ATTEMPTS times; a
\* click follows only a check that found the interstitial active, so there
\* are never more clicks than checks; the loop is left at the first check
\* that finds it gone, with no further click; and when all attempts are used
\* up the control is at the caller's next step with the account not failed.
C15_InterstitialBounded ==
  /\ cf.checks <= CF_ATTEMPTS /\ cf.clicks <= cf.checks
  /\ pc \in {"dash_click", "login_click"} =>
       cf.active /\ cf.checks = cf.clicks + 1
  /\ pc \in {"dash_title", "login_title"} => cf.clicks = cf.checks /\ cf.clicks = i
  /\ (pc \in {"check", "ts_locate"} /\ ~cf.exhausted) =>
       ~cf.active /\ cf.checks = cf.clicks + 1
  /\ cf.exhausted =>
       /\ cf.checks = CF_ATTEMPTS /\ cf.clicks = CF_ATTEMPTS
       /\ pc \in {"check", "ts_locate"} /\ outcome = "none"

\* The interstitial on the login page never cleared: thirty checks, thirty
\* clicks, and login() is at the Turnstile stage.
C15_Witness == pc = "ts_locate" /\ cf.exhausted /\ cf.clicks = CF_ATTEMPTS

\* --------------------------------------------------------------------- C16
\* C16: with no widget there is no click and no poll; with a widget there is
\* exactly one click and at most TURNSTILE_POLLS polls; turnstile_ok is set
\* only by a poll that saw a token longer than TOKEN_MIN_LEN, and the polls
\* stop early only then; in all three cases both fields are filled and the
\* form is submitted.
C16_WidgetStage ==
  /\ ts.present = "no" => ts.clicks = 0 /\ ts.polls = 0 /\ ~ts.ok
  /\ ts.present = "yes" =>
       /\ ts.clicks = (IF pc = "ts_click" THEN 0 ELSE 1)
       /\ ts.polls <= TURNSTILE_POLLS
  /\ ts.ok => ts.polls >= 1 /\ ts.len > TOKEN_MIN_LEN
  /\ (pc \in {"fill", "submit", "2fa_detect"} /\ ts.present = "yes" /\ ~ts.ok) =>
       ts.polls = TURNSTILE_POLLS
  /\ pc \in {"fill", "submit", "2fa_detect"} =>
       ts.present \in {"yes", "no"} /\ outcome = "none"
  /\ pc = "submit" => fills = 2
  /\ pc = "2fa_detect" => fills = 2 /\ clicks = 1

\* The widget was there, fifteen polls saw no token, and the form has been
\* filled and submitted all the same.
C16_Witness ==
  pc = "2fa_detect" /\ ts.present = "yes" /\ ~ts.ok /\ ts.polls = TURNSTILE_POLLS

\* --------------------------------------------------------------------- C17
\* C17: a prompt for an account without a secret makes handle_2fa return
\* False at once, with no oracle request, no fill and no click, and the run
\* fails; without a second-factor marker handle_2fa returns True with none
\* of those actions.
C17_NoSecretFailsAtOnce ==
  /\ (tf.prompt = "yes" /\ totp_secret = <<>>) =>
       /\ pc = "finally" /\ outcome = "False" /\ tf.result = "False"
       /\ ~tf.asked /\ totp.fetches = 0 /\ ~tf.filled /\ ~tf.clicked
  /\ tf.prompt = "no" =>
       /\ pc = "verify" /\ outcome = "none" /\ tf.result = "True"
       /\ ~tf.asked /\ totp.fetches = 0 /\ ~tf.filled /\ ~tf.clicked

\* A prompt was shown to an account without a secret while TOTP_API_URL is
\* set, and the run has failed.
C17_Witness ==
  /\ tf.prompt = "yes" /\ totp_secret = <<>> /\ ENV.totp_url
  /\ pc = "finally" /\ outcome = "False"

\* --------------------------------------------------------------------- C18
\* C18: when handle_2fa detected a prompt and returns True, it has filled
\* the code into an input field and clicked a submit control.
C18_SuccessImpliesSubmitted ==
  (tf.prompt = "yes" /\ tf.result = "True") =>
    tf.filled /\ tf.code # "" /\ tf.clicked

\* --------------------------------------------------------------------- C19
\* C19: when the browser for the i-th account is about to be launched, main()
\* has paused i - 1 times, once after each earlier account's run.
C19_PauseBetweenAccounts == pc = "launch" => pauses >= idx - 1

\* --------------------------------------------------------------------- C20
\* C20: when every browser call, oracle request and sleep returns, a run
\* that was started comes to its end with outcome True or False, and a batch
\* that was started comes to its summary with one result per account,
\* whatever the pages and the oracle answer.
C20_Terminates ==
  /\ (pc = "launch") ~> (pc = "append" /\ outcome \in {"True", "False"})
  /\ (pc = "loop") ~> (Finished /\ exit_code \in {0, 1})

\* A batch of three accounts came to its summary with a failed account.
C20_Witness == Finished /\ Len(results) = 3 /\ ~AllSucceeded /\ runNo = 1

====
